---------------------------- MODULE Spec2Model ----------------------------
(***************************************************************************)
(* Model of server-ca/CSR.py: the CSR operations a small CA performs by    *)
(* running OpenSSL sub-processes (the "provider") and ./CA.sh (the "CA     *)
(* backend").                                                              *)
(*                                                                         *)
(* Byte strings are sequences of one-character strings.  Python's None is  *)
(* the empty tuple and a present value x is the one-element tuple <<x>>,   *)
(* so that None differs from the empty byte string.                        *)
(***************************************************************************)
EXTENDS Integers, Sequences, FiniteSets, TLC

(* ------------------------------ bounds -------------------------------- *)

\* Lines in a key dump handed to modulusbits.
MaxLines == 2
\* Components in a subject line handed to cn.
MaxComps == 3
\* Labels in a name handed to can_sign.
MaxLabels == 3
\* Concurrent calls in SpecConc.
NProcs == 2

(* ------------------------------ values -------------------------------- *)

None == <<>>
Some(x) == <<x>>

\* The sequences over S of length at most n.
RECURSIVE SeqsUpTo(_, _)
SeqsUpTo(S, n) ==
  IF n = 0 THEN {<<>>}
  ELSE LET shorter == SeqsUpTo(S, n - 1)
       IN  shorter \cup {Append(s, x) : s \in {t \in shorter : Len(t) = n - 1}, x \in S}

(* ----------------------------- literals ------------------------------- *)

Str_PublicKey == <<"P","u","b","l","i","c","-","K","e","y">>
Str_Modulus   == <<"M","o","d","u","l","u","s">>
Str_Exponent  == <<"E","x","p","o","n","e","n","t">>
Str_bit       == <<" ","b","i","t",")">>
Str_CNeq      == <<"C","N","=">>
Str_subjecteq == <<"s","u","b","j","e","c","t","=">>
Str_google    == <<"g","o","o","g","l","e">>
Str_Google    == <<"G","o","o","g","l","e">>
Str_com       == <<"c","o","m">>
Str_www       == <<"w","w","w">>
Str_localhost == <<"l","o","c","a","l","h","o","s","t">>
Str_google_com     == Str_google \o <<".">> \o Str_com
Str_www_google_com == Str_www \o <<".">> \o Str_google_com

Digits == {"0","1","2","3","4","5","6","7","8","9"}

DigitVal(c) ==
  CASE c = "0" -> 0 [] c = "1" -> 1 [] c = "2" -> 2 [] c = "3" -> 3
    [] c = "4" -> 4 [] c = "5" -> 5 [] c = "6" -> 6 [] c = "7" -> 7
    [] c = "8" -> 8 [] c = "9" -> 9

\* int(size) for a string of decimal digits.
RECURSIVE int(_)
int(ds) ==
  IF ds = <<>> THEN 0
  ELSE 10 * int(SubSeq(ds, 1, Len(ds) - 1)) + DigitVal(ds[Len(ds)])

(* --------------------------- string helpers --------------------------- *)

\* s[i-1:i-1+len(p)] == p, Python slice semantics (1-based i here).
HasPrefixAt(s, i, p) ==
  /\ i + Len(p) - 1 <= Len(s)
  /\ \A k \in 1..Len(p) : s[i + k - 1] = p[k]

\* str.split(sep) for a one-character separator.
RECURSIVE split(_, _)
split(s, sep) ==
  IF \A i \in 1..Len(s) : s[i] # sep THEN <<s>>
  ELSE LET i == CHOOSE k \in 1..Len(s) :
                  /\ s[k] = sep
                  /\ \A j \in 1..(k - 1) : s[j] # sep
       IN  <<SubSeq(s, 1, i - 1)>> \o split(SubSeq(s, i + 1, Len(s)), sep)

Whitespace == {" ", "\n", "\t", "\r"}

\* str.rstrip()
RECURSIVE rstrip(_)
rstrip(s) ==
  IF s # <<>> /\ s[Len(s)] \in Whitespace
  THEN rstrip(SubSeq(s, 1, Len(s) - 1))
  ELSE s


(* ------------------- provider (OpenSSL) outcomes ---------------------- *)

\* What one sub-process run leaves behind: communicate()'s (out, err) and
\* the exit status, which Popen keeps in returncode.
Outs == {<<>>, <<"x">>}
Errs == {<<>>, <<"e">>}
Rcs  == {0, 1}
Outcome(outs) == [out : outs, err : Errs, rc : Rcs]

\* No run: the value of an outcome field the operation never consults.
Blank == [out |-> <<>>, err |-> <<>>, rc |-> 0]

\* "openssl rsa -pubin" given nothing on stdin, which is what
\* communicate(None) sends: it fails to load a key and reports the error.
EmptyStdin == [out |-> <<>>, err |-> <<"e">>, rc |-> 1]

\* One line of "openssl rsa -text" output as this model draws it.
DumpKeywords == {Str_PublicKey, Str_Modulus, Str_Exponent}
DumpColons   == {<<>>, <<":">>}
DumpDigits   == {<<>>, <<"0">>, <<"1","9","9","9">>, <<"2","0","0","0">>}
DumpLines    == [kw : DumpKeywords, colon : DumpColons, digits : DumpDigits]

LineText(l) == l.kw \o l.colon \o <<" ", "(">> \o l.digits \o Str_bit \o <<"\n">>

RECURSIVE DumpText(_)
DumpText(ls) == IF ls = <<>> THEN <<>> ELSE LineText(Head(ls)) \o DumpText(Tail(ls))

\* One component of a subject line, "/KEY=VALUE".
SubjectKeys   == {<<"C">>, <<"C","N">>}
SubjectValues == {<<"a">>, <<"a","=","b">>}
SubjectComps  == [k : SubjectKeys, v : SubjectValues]

RECURSIVE CompsText(_)
CompsText(cs) ==
  IF cs = <<>> THEN <<>>
  ELSE <<"/">> \o Head(cs).k \o <<"=">> \o Head(cs).v \o CompsText(Tail(cs))

SubjectText(cs) == Str_subjecteq \o CompsText(cs) \o <<"\n">>

(* --------------------------- CSR.py, pure ----------------------------- *)

\* parse: "if not err: return True"
parse(r) == r.err = <<>>

\* The tail of the pattern, " \(([0-9]+) bit\)", tried at position j.
\* [0-9]+ is greedy; a shorter run leaves a digit where " bit)" must
\* start, so only the longest run can match.
RestAt(s, j) ==
  IF ~HasPrefixAt(s, j, <<" ", "(">>) THEN None
  ELSE LET from == j + 2
           ends == {k \in (from - 1)..Len(s) :
                      /\ \A m \in from..k : s[m] \in Digits
                      /\ (k = Len(s) \/ s[k + 1] \notin Digits)}
           k    == CHOOSE e \in ends : TRUE
       IN  IF k >= from /\ HasPrefixAt(s, k + 1, Str_bit)
           THEN Some(SubSeq(s, from, k))
           ELSE None

\* One alternative of "(Public-Key|Modulus)" followed by ":?" and the tail.
AltAt(s, i, kw) ==
  IF ~HasPrefixAt(s, i, kw) THEN None
  ELSE LET j == i + Len(kw)
       IN  IF HasPrefixAt(s, j, <<":">>) /\ RestAt(s, j + 1) # None
           THEN RestAt(s, j + 1)
           ELSE RestAt(s, j)

\* The pattern tried at position i: alternatives in the order written.
MatchAt(s, i) ==
  IF AltAt(s, i, Str_PublicKey) # None
  THEN AltAt(s, i, Str_PublicKey)
  ELSE AltAt(s, i, Str_Modulus)

\* A plausible slip: prefer the first alternative over the whole text.
re_search_PreferFirstAlt(s) ==
  LET pk == {i \in 1..Len(s) : AltAt(s, i, Str_PublicKey) # None}
      md == {i \in 1..Len(s) : AltAt(s, i, Str_Modulus) # None}
      min(S) == CHOOSE i \in S : \A j \in S : i <= j
  IN  IF pk # {} THEN AltAt(s, min(pk), Str_PublicKey)
      ELSE IF md # {} THEN AltAt(s, min(md), Str_Modulus)
      ELSE None

\* re.search(pattern, out).groups()[-1]: the match at the leftmost
\* position where the pattern matches; None stands for the AttributeError
\* that a failed search raises.
re_search(s) ==
  LET hits == {i \in 1..Len(s) : MatchAt(s, i) # None}
  IN  IF hits = {} THEN None
      ELSE MatchAt(s, CHOOSE i \in hits : \A j \in hits : i <= j)

\* modulusbits
modulusbits(r) ==
  IF r.out # <<>> /\ r.err = <<>>
  THEN LET size == re_search(r.out)
       IN  IF size = None THEN None ELSE Some(int(size[1]))
  ELSE None

\* The policy constant of goodkey.
MinBits == 2000

\* A plausible slip: a strict comparison.
goodkey_Strict(r) ==
  LET bits == modulusbits(r)
  IN  bits # None /\ bits[1] # 0 /\ bits[1] > MinBits

\* goodkey: "if bits and bits >= 2000"; r is the provider's answer for
\* the key.
goodkey(r) ==
  LET bits == modulusbits(r)
  IN  bits # None /\ bits[1] # 0 /\ bits[1] >= MinBits

\* pubkey: "if out and not err: return out"
pubkey(r) == IF r.out # <<>> /\ r.err = <<>> THEN Some(r.out) ELSE None

\* subject
subject(r) == IF r.out # <<>> /\ r.err = <<>> THEN Some(r.out) ELSE None

\* cn
cn(r) ==
  LET s   == subject(r)
      cns == IF s # None
             THEN SelectSeq(split(rstrip(s[1]), "/"),
                            LAMBDA x : HasPrefixAt(x, 1, Str_CNeq))
             ELSE <<>>
  IN  IF Len(cns) = 1 THEN Some(split(cns[1], "=")[2]) ELSE None

Blacklist == {Str_google_com, Str_www_google_com}

\* A plausible slip: the dot test dropped.
can_sign_NoDotTest(name) == name \notin Blacklist

\* can_sign
can_sign(name) ==
  IF \A i \in 1..Len(name) : name[i] # "." THEN FALSE
  ELSE IF name \in Blacklist THEN FALSE
  ELSE TRUE

\* verify / sign / encrypt: "if out and not err: return out"
verify(r)  == IF r.out # <<>> /\ r.err = <<>> THEN Some(r.out) ELSE None
sign(r)    == IF r.out # <<>> /\ r.err = <<>> THEN Some(r.out) ELSE None
encrypt(r) == IF r.out # <<>> /\ r.err = <<>> THEN Some(r.out) ELSE None

\* issue: b.rc is CA.sh's exit status, b.wrote what it left in cert_tmp.
issue(b) == IF b.rc = 0 THEN Some(b.wrote) ELSE None

(* ------------------------ inputs of the calls ------------------------- *)

\* Key dumps of at most one line, for the operations that only pass the
\* dump on to modulusbits.
KeyDumpLines == SeqsUpTo(DumpLines, 1)

\* Names: labels joined by dots.
Labels == {<<>>, Str_www, Str_google, Str_Google, Str_com, Str_localhost}

RECURSIVE JoinDots(_)
JoinDots(ls) ==
  IF Len(ls) = 1 THEN ls[1]
  ELSE ls[1] \o <<".">> \o JoinDots(Tail(ls))

Names == {JoinDots(ls) : ls \in SeqsUpTo(Labels, MaxLabels) \ {<<>>}}

\* What pkcs10.subject_names may report for a CSR handed to issue.
IssueNames == {Str_google_com, Str_localhost, Str_Google \o <<".">> \o Str_com}

\* What CA.sh may leave behind: exit status and the content of cert_tmp.
BackendOutcomes == [rc : Rcs, wrote : {<<>>, <<"c","e","r","t">>}]

\* The CSR or key of a call: for every provider command, the provider's
\* answer to it (the provider is a function of the bytes it is given),
\* and the structure the dump and the subject line were built from.
NoArg ==
  [syntax  |-> Blank, pub |-> Blank, rsa |-> Blank, subj |-> Blank,
   util    |-> Blank, backend |-> [rc |-> 0, wrote |-> <<>>],
   lines   |-> <<>>,  comps |-> <<>>, name |-> <<>>, names |-> {}]

(* ------------------------------- state -------------------------------- *)

VARIABLES
  op,      \* the operation in progress, "" when none
  pc,      \* its position: "idle", a label of csr_goodkey, or "done"
  arg,     \* its input (see NoArg)
  calls,   \* the sub-processes it has run, in order
  key,     \* csr_goodkey's local variable
  ret      \* its return value

\* The concurrent calls of SpecConc.
VARIABLES
  files,   \* the temporary directory: name -> [exists, data, owner, writer]
  cpc,     \* per call: its position
  cop,     \* per call: the operation
  ctmp,    \* per call: the names of its open temporary files
  cread,   \* per call: [data, writer] of what the sub-process read
  crc,     \* per call: CA.sh's exit status
  cexc,    \* per call: whether it left by an exception
  cret     \* per call: the value returned

seqvars == <<op, pc, arg, calls, key, ret>>

concvars == <<files, cpc, cop, ctmp, cread, crc, cexc, cret>>

SeqInit ==
  /\ op = ""
  /\ pc = "idle"
  /\ arg = NoArg
  /\ calls = <<>>
  /\ key = None
  /\ ret = None

\* A call that runs to its return in one step.
Finish(o, a, cs, r) ==
  /\ op' = o
  /\ pc' = "done"
  /\ arg' = a
  /\ calls' = cs
  /\ key' = None
  /\ ret' = r
  /\ UNCHANGED concvars

Call_parse ==
  /\ pc = "idle"
  /\ \E r \in Outcome(Outs) :
       Finish("parse", [NoArg EXCEPT !.syntax = r], <<"req -noout">>, parse(r))

Call_pubkey ==
  /\ pc = "idle"
  /\ \E r \in Outcome(Outs) :
       Finish("pubkey", [NoArg EXCEPT !.pub = r], <<"req -pubkey">>, pubkey(r))

Call_subject ==
  /\ pc = "idle"
  /\ \E r \in Outcome(Outs) :
       Finish("subject", [NoArg EXCEPT !.subj = r], <<"req -subject">>, subject(r))

Call_verify ==
  /\ pc = "idle"
  /\ \E r \in Outcome(Outs) :
       Finish("verify", [NoArg EXCEPT !.util = r], <<"rsautl -verify">>, verify(r))

Call_sign ==
  /\ pc = "idle"
  /\ \E r \in Outcome(Outs) :
       Finish("sign", [NoArg EXCEPT !.util = r], <<"rsautl -sign">>, sign(r))

Call_encrypt ==
  /\ pc = "idle"
  /\ \E r \in Outcome(Outs) :
       Finish("encrypt", [NoArg EXCEPT !.util = r], <<"rsautl -encrypt">>, encrypt(r))

Call_modulusbits ==
  /\ pc = "idle"
  /\ \E ls \in SeqsUpTo(DumpLines, MaxLines), e \in Errs, c \in Rcs :
       LET r == [out |-> DumpText(ls), err |-> e, rc |-> c]
       IN  Finish("modulusbits", [NoArg EXCEPT !.rsa = r, !.lines = ls],
                  <<"rsa -text">>, modulusbits(r))

Call_goodkey ==
  /\ pc = "idle"
  /\ \E ls \in KeyDumpLines, e \in Errs, c \in Rcs :
       LET r == [out |-> DumpText(ls), err |-> e, rc |-> c]
       IN  Finish("goodkey", [NoArg EXCEPT !.rsa = r, !.lines = ls],
                  <<"rsa -text">>, goodkey(r))

Call_cn ==
  /\ pc = "idle"
  /\ \E cs \in SeqsUpTo(SubjectComps, MaxComps), e \in Errs, c \in Rcs :
       \E o \in {SubjectText(cs)} \cup (IF cs = <<>> THEN {<<>>} ELSE {}) :
         LET r == [out |-> o, err |-> e, rc |-> c]
         IN  Finish("cn", [NoArg EXCEPT !.subj = r, !.comps = cs],
                    <<"req -subject">>, cn(r))

Call_can_sign ==
  /\ pc = "idle"
  /\ \E n \in Names :
       Finish("can_sign", [NoArg EXCEPT !.name = n], <<>>, can_sign(n))

\* issue, with the answers the provider would give for the same CSR.
Call_issue ==
  /\ pc = "idle"
  /\ \E sy \in Outcome(Outs), pb \in Outcome(Outs), e \in Errs,
        d \in {<<"1","9","9","9">>, <<"2","0","0","0">>},
        ns \in {{}} \cup {{n} : n \in IssueNames}, b \in BackendOutcomes :
       LET ls == <<[kw |-> Str_PublicKey, colon |-> <<":">>, digits |-> d]>>
           a  == [NoArg EXCEPT !.syntax = sy, !.pub = pb,
                               !.rsa = [out |-> DumpText(ls), err |-> e, rc |-> 0],
                               !.lines = ls, !.names = ns, !.backend = b]
       IN  Finish("issue", a, <<"CA.sh">>, issue(b))

\* A plausible slip: the early return forgotten.
CsrGoodkey_parse_NoReturn ==
  /\ pc = "idle"
  /\ \E sy \in Outcome(Outs), pb \in Outcome(Outs),
        ls \in KeyDumpLines, e \in Errs, c \in Rcs :
       arg' = [NoArg EXCEPT !.syntax = sy, !.pub = pb, !.lines = ls,
                 !.rsa = [out |-> DumpText(ls), err |-> e, rc |-> c]]
  /\ op' = "csr_goodkey"
  /\ calls' = <<"req -noout">>
  /\ pc' = "cg_pubkey"
  /\ ret' = None
  /\ key' = None
  /\ UNCHANGED concvars

\* csr_goodkey, line 37: "if not parse(csr): return False"
CsrGoodkey_parse ==
  /\ pc = "idle"
  /\ \E sy \in Outcome(Outs), pb \in Outcome(Outs),
        ls \in KeyDumpLines, e \in Errs, c \in Rcs :
       arg' = [NoArg EXCEPT !.syntax = sy, !.pub = pb, !.lines = ls,
                 !.rsa = [out |-> DumpText(ls), err |-> e, rc |-> c]]
  /\ op' = "csr_goodkey"
  /\ calls' = <<"req -noout">>
  /\ IF parse(arg'.syntax)
     THEN pc' = "cg_pubkey" /\ ret' = None
     ELSE pc' = "done" /\ ret' = FALSE
  /\ key' = None
  /\ UNCHANGED concvars

\* csr_goodkey, line 38: "key = pubkey(csr)"
CsrGoodkey_pubkey ==
  /\ pc = "cg_pubkey"
  /\ calls' = Append(calls, "req -pubkey")
  /\ key' = pubkey(arg.pub)
  /\ pc' = "cg_goodkey"
  /\ UNCHANGED <<op, arg, ret>>
  /\ UNCHANGED concvars

\* What "openssl rsa -pubin -text" answers for k.
RsaText(a, k) == IF k = None THEN EmptyStdin ELSE a.rsa

\* csr_goodkey, line 39: "return goodkey(key)"
CsrGoodkey_goodkey ==
  /\ pc = "cg_goodkey"
  /\ calls' = Append(calls, "rsa -text")
  /\ ret' = goodkey(RsaText(arg, key))
  /\ pc' = "done"
  /\ UNCHANGED <<op, arg, key>>
  /\ UNCHANGED concvars

\* csr_goodkey as a whole.
csr_goodkey(a) ==
  IF ~parse(a.syntax) THEN FALSE
  ELSE goodkey(RsaText(a, pubkey(a.pub)))

\* The caller takes the result; the module keeps nothing across calls.
Return ==
  /\ pc = "done"
  /\ op' = ""
  /\ pc' = "idle"
  /\ arg' = NoArg
  /\ calls' = <<>>
  /\ key' = None
  /\ ret' = None
  /\ UNCHANGED concvars

SeqNext ==
  \/ Call_parse
  \/ Call_pubkey
  \/ Call_subject
  \/ Call_verify
  \/ Call_sign
  \/ Call_encrypt
  \/ Call_modulusbits
  \/ Call_goodkey
  \/ Call_cn
  \/ Call_can_sign
  \/ Call_issue
  \/ CsrGoodkey_parse
  \/ CsrGoodkey_pubkey
  \/ CsrGoodkey_goodkey
  \/ Return

(* ------------- concurrent calls and their temporary files ------------- *)

Procs == 1..NProcs

\* Names tempfile.NamedTemporaryFile may hand out.
TmpNames == 1..(NProcs + 1)

NoName == 0

\* The key or CSR bytes call p is given: different for different calls.
InputOf(p) == <<"k", ToString(p)>>

NoFile == [exists |-> FALSE, data |-> <<>>, owner |-> 0, writer |-> 0]
NoTmp  == [a |-> NoName, b |-> NoName]
NoRead == [data |-> <<>>, writer |-> 0]

ConcInit ==
  /\ files = [n \in TmpNames |-> NoFile]
  /\ cpc   = [p \in Procs |-> "idle"]
  /\ cop   = [p \in Procs |-> ""]
  /\ ctmp  = [p \in Procs |-> NoTmp]
  /\ cread = [p \in Procs |-> NoRead]
  /\ crc   = [p \in Procs |-> 0]
  /\ cexc  = [p \in Procs |-> FALSE]
  /\ cret  = [p \in Procs |-> None]

\* NamedTemporaryFile creates its file with O_EXCL: never a name in use.
FreshNames == {n \in TmpNames : ~files[n].exists}

\* What "openssl rsautl" answers when the key file holds k.
RsautlRun(o, k) ==
  IF k = <<>> THEN [out |-> <<>>, err |-> <<"e">>, rc |-> 1]
  ELSE [out |-> <<o>> \o k, err |-> <<>>, rc |-> 0]

\* What CA.sh writes for the CSR file content c when it exits with rc.
CaShWrites(c, rc) == IF rc = 0 THEN <<"cert">> \o c ELSE <<>>

C_Start(p) ==
  /\ cpc[p] = "idle"
  /\ \E o \in {"verify", "sign", "encrypt", "issue"} : cop' = [cop EXCEPT ![p] = o]
  /\ cpc' = [cpc EXCEPT ![p] = "open"]
  /\ UNCHANGED <<files, ctmp, cread, crc, cexc, cret>>
  /\ UNCHANGED seqvars

\* "with tempfile.NamedTemporaryFile() as tmp" (as csr_tmp in issue)
C_Open(p) ==
  /\ cpc[p] = "open"
  /\ \E n \in FreshNames :
       /\ files' = [files EXCEPT ![n] = [exists |-> TRUE, data |-> <<>>,
                                         owner |-> p, writer |-> 0]]
       /\ ctmp' = [ctmp EXCEPT ![p].a = n]
  /\ cpc' = [cpc EXCEPT ![p] = "write"]
  /\ UNCHANGED <<cop, cread, crc, cexc, cret>>
  /\ UNCHANGED seqvars

\* "tmp.write(key); tmp.flush()"
C_Write(p) ==
  /\ cpc[p] = "write"
  /\ files' = [files EXCEPT ![ctmp[p].a].data = InputOf(p),
                            ![ctmp[p].a].writer = p]
  /\ cpc' = [cpc EXCEPT ![p] = IF cop[p] = "issue" THEN "open2" ELSE "run"]
  /\ UNCHANGED <<cop, ctmp, cread, crc, cexc, cret>>
  /\ UNCHANGED seqvars

\* issue: "with tempfile.NamedTemporaryFile() as cert_tmp"
C_Open2(p) ==
  /\ cpc[p] = "open2"
  /\ \E n \in FreshNames :
       /\ files' = [files EXCEPT ![n] = [exists |-> TRUE, data |-> <<>>,
                                         owner |-> p, writer |-> 0]]
       /\ ctmp' = [ctmp EXCEPT ![p].b = n]
  /\ cpc' = [cpc EXCEPT ![p] = "run"]
  /\ UNCHANGED <<cop, cread, crc, cexc, cret>>
  /\ UNCHANGED seqvars

\* A plausible slip: a fixed path instead of the temporary file's name.
InkeyName_Fixed(p) == 1

\* The file name handed to the sub-process: tmp.name, csr_tmp.name.
InkeyName(p) == ctmp[p].a

\* verify, sign, encrypt: Popen(...).communicate(data); the sub-process
\* reads the key file by name.  Popen may raise instead (OSError).
C_RunRsautl(p) ==
  /\ cpc[p] = "run"
  /\ cop[p] # "issue"
  /\ \E raised \in BOOLEAN :
       /\ cexc' = [cexc EXCEPT ![p] = raised]
       /\ IF raised
          THEN UNCHANGED <<cread, cret>>
          ELSE LET f == files[InkeyName(p)]
               IN  /\ cread' = [cread EXCEPT ![p] = [data |-> f.data, writer |-> f.writer]]
                   /\ cret' = [cret EXCEPT ![p] =
                        LET r == RsautlRun(cop[p], f.data)
                        IN  CASE cop[p] = "verify"  -> verify(r)
                              [] cop[p] = "sign"    -> sign(r)
                              [] cop[p] = "encrypt" -> encrypt(r)]
  /\ cpc' = [cpc EXCEPT ![p] = "close"]
  /\ UNCHANGED <<files, cop, ctmp, crc>>
  /\ UNCHANGED seqvars

\* issue: Popen(["./CA.sh", "-chocolate", csr_tmp.name, cert_tmp.name]).wait()
C_RunCaSh(p) ==
  /\ cpc[p] = "run"
  /\ cop[p] = "issue"
  /\ \E raised \in BOOLEAN, rc \in Rcs :
       /\ cexc' = [cexc EXCEPT ![p] = raised]
       /\ IF raised
          THEN /\ UNCHANGED <<cread, crc, files>>
               /\ cpc' = [cpc EXCEPT ![p] = "close2"]
          ELSE LET f == files[InkeyName(p)]
               IN  /\ cread' = [cread EXCEPT ![p] = [data |-> f.data, writer |-> f.writer]]
                   /\ crc' = [crc EXCEPT ![p] = rc]
                   /\ files' = [files EXCEPT ![ctmp[p].b].data = CaShWrites(f.data, rc),
                                             ![ctmp[p].b].writer = p]
                   /\ cpc' = [cpc EXCEPT ![p] = IF rc = 0 THEN "read" ELSE "close2"]
  /\ UNCHANGED <<cop, ctmp, cret>>
  /\ UNCHANGED seqvars

\* issue: "if ret == 0: cert = cert_tmp.read()"
C_Read(p) ==
  /\ cpc[p] = "read"
  /\ cret' = [cret EXCEPT ![p] = issue([rc |-> crc[p], wrote |-> files[ctmp[p].b].data])]
  /\ cpc' = [cpc EXCEPT ![p] = "close2"]
  /\ UNCHANGED <<files, cop, ctmp, cread, crc, cexc>>
  /\ UNCHANGED seqvars

\* issue: leaving the inner with block deletes cert_tmp.
C_Close2(p) ==
  /\ cpc[p] = "close2"
  /\ files' = [files EXCEPT ![ctmp[p].b] = NoFile]
  /\ ctmp' = [ctmp EXCEPT ![p].b = NoName]
  /\ cpc' = [cpc EXCEPT ![p] = "close"]
  /\ UNCHANGED <<cop, cread, crc, cexc, cret>>
  /\ UNCHANGED seqvars

\* Leaving the with block deletes the file, by return or by exception.
C_Close(p) ==
  /\ cpc[p] = "close"
  /\ files' = [files EXCEPT ![ctmp[p].a] = NoFile]
  /\ ctmp' = [ctmp EXCEPT ![p].a = NoName]
  /\ cpc' = [cpc EXCEPT ![p] = "done"]
  /\ UNCHANGED <<cop, cread, crc, cexc, cret>>
  /\ UNCHANGED seqvars

\* The caller takes the result (or the exception).
C_Return(p) ==
  /\ cpc[p] = "done"
  /\ cpc' = [cpc EXCEPT ![p] = "idle"]
  /\ cop' = [cop EXCEPT ![p] = ""]
  /\ cread' = [cread EXCEPT ![p] = NoRead]
  /\ crc' = [crc EXCEPT ![p] = 0]
  /\ cexc' = [cexc EXCEPT ![p] = FALSE]
  /\ cret' = [cret EXCEPT ![p] = None]
  /\ UNCHANGED <<files, ctmp>>
  /\ UNCHANGED seqvars

ConcNext ==
  \E p \in Procs :
    \/ C_Start(p)
    \/ C_Open(p)
    \/ C_Write(p)
    \/ C_Open2(p)
    \/ C_RunRsautl(p)
    \/ C_RunCaSh(p)
    \/ C_Read(p)
    \/ C_Close2(p)
    \/ C_Close(p)
    \/ C_Return(p)

(* --------------------------- specifications --------------------------- *)

vars == <<op, pc, arg, calls, key, ret, files, cpc, cop, ctmp, cread, crc, cexc, cret>>

Init == SeqInit /\ ConcInit

\* One call at a time.
Next == SeqNext

Spec == Init /\ [][Next]_vars

\* NProcs calls of verify, sign, encrypt and issue, interleaved.
NextConc == ConcNext

SpecConc == Init /\ [][NextConc]_vars

(* ------------------------------ claims -------------------------------- *)

IssueDone == op = "issue" /\ pc = "done"

\* issue returned certificate bytes (not None, not the empty string).
ReturnedCertificate == ret # None /\ ret[1] # <<>>

\* C1: a CSR that fails the syntax check is never issued a certificate,
\* whatever the CA backend answers.
C1_NoCertificateForMalformedCsr ==
  (IssueDone /\ ~parse(arg.syntax)) => ~ReturnedCertificate

\* C2: issue returns a certificate only if the key of the CSR is
\* acceptable and every name of the CSR may be issued.
C2_CertificateOnlyThroughPolicyGate ==
  (IssueDone /\ ReturnedCertificate) =>
     /\ csr_goodkey(arg)
     /\ \A n \in arg.names : can_sign(n)

\* C3: a non-zero backend status gives None, a zero status gives the bytes
\* the backend wrote, and a returned certificate is never empty.
C3_CertificateNeverEmpty ==
  IssueDone =>
     /\ arg.backend.rc # 0 => ret = None
     /\ arg.backend.rc = 0 => ret = Some(arg.backend.wrote)
     /\ ret # None => ret[1] # <<>>

KeyCommands == {"req -pubkey", "rsa -text"}

\* C4: in csr_goodkey the syntax check is the first sub-process, the key
\* is extracted before it is inspected, neither happens unless the syntax
\* check passed, and a failed syntax check ends the call with False.
C4_SyntaxCheckBeforeKey ==
  op = "csr_goodkey" =>
     /\ calls # <<>>
     /\ calls[1] = "req -noout"
     /\ \A i \in 1..Len(calls) :
          calls[i] \in KeyCommands => (i > 1 /\ parse(arg.syntax))
     /\ \A i, j \in 1..Len(calls) :
          (calls[i] = "req -pubkey" /\ calls[j] = "rsa -text") => i < j
     /\ (pc = "done" /\ ~parse(arg.syntax)) =>
          (calls = <<"req -noout">> /\ ret = FALSE)

\* C4 witness: the syntax check failed on a CSR whose key the provider
\* would have extracted and found acceptable; the call is over.
C4_Witness ==
  /\ op = "csr_goodkey"
  /\ pc = "done"
  /\ ~parse(arg.syntax)
  /\ pubkey(arg.pub) # None
  /\ goodkey(arg.rsa)

\* C5: goodkey is true iff the modulus bits are present and >= 2000;
\* csr_goodkey is true iff the syntax check passes, a key is extracted and
\* that key is acceptable; anything missing gives False.
C5_KeyPolicyThreshold ==
  /\ (op = "goodkey" /\ pc = "done") =>
        (ret = (/\ modulusbits(arg.rsa) # None
                /\ modulusbits(arg.rsa)[1] >= 2000))
  /\ (op = "csr_goodkey" /\ pc = "done") =>
        /\ ret \in BOOLEAN
        /\ ret = (/\ arg.syntax.err = <<>>
                  /\ pubkey(arg.pub) # None
                  /\ modulusbits(arg.rsa) # None
                  /\ modulusbits(arg.rsa)[1] >= 2000)

\* C5 witness: csr_goodkey accepted a key of exactly 2000 bits.
C5_Witness ==
  /\ op = "csr_goodkey"
  /\ pc = "done"
  /\ ret = TRUE
  /\ modulusbits(arg.rsa) = Some(2000)

AdapterOps == {"parse", "pubkey", "subject", "modulusbits", "sign", "verify", "encrypt"}

\* The provider's answer an adapter operation worked on.
AnswerOf(o, a) ==
  CASE o = "parse"       -> a.syntax
    [] o = "pubkey"      -> a.pub
    [] o = "subject"     -> a.subj
    [] o = "modulusbits" -> a.rsa
    [] OTHER             -> a.util

\* C6: a failed provider run (non-zero exit status, or a non-empty error
\* channel, or empty output) makes every adapter operation return None;
\* the syntax check, whose command prints nothing, is true only when the
\* provider accepted the CSR (zero exit status, empty error channel).
C6_FailedRunCollapses ==
  (pc = "done" /\ op \in AdapterOps) =>
     LET r == AnswerOf(op, arg)
     IN  IF op = "parse"
         THEN ret = TRUE => (r.rc = 0 /\ r.err = <<>>)
         ELSE (r.rc # 0 \/ r.err # <<>> \/ r.out = <<>>) => ret = None

\* The CN components of the subject the call was given.
CnComps(a) == SelectSeq(a.comps, LAMBDA c : c.k = <<"C","N">>)

\* C7: cn returns None for zero or several CN components and, for exactly
\* one, the whole of its value, further '=' characters included.
C7_CommonNameExactValue ==
  (op = "cn" /\ pc = "done" /\ subject(arg.subj) # None) =>
     IF Len(CnComps(arg)) = 1
     THEN ret = Some(CnComps(arg)[1].v)
     ELSE ret = None

\* The lines of a dump the pattern matches, in the order of the dump.
MatchingLines(ls) ==
  SelectSeq(ls, LAMBDA l : l.kw \in {Str_PublicKey, Str_Modulus} /\ l.digits # <<>>)

PublicKeyLines(ls) == SelectSeq(MatchingLines(ls), LAMBDA l : l.kw = Str_PublicKey)

ModulusLines(ls) == SelectSeq(MatchingLines(ls), LAMBDA l : l.kw = Str_Modulus)

\* The number a digit string of the dumps stands for.
BitsOf(d) ==
  CASE d = <<"0">>             -> 0
    [] d = <<"1","9","9","9">> -> 1999
    [] d = <<"2","0","0","0">> -> 2000

ModulusbitsDone == op = "modulusbits" /\ pc = "done"

Readable(r) == r.out # <<>> /\ r.err = <<>>

AloneResult(p) ==
  IF cop[p] = "issue"
  THEN (IF crc[p] = 0 THEN Some(<<"cert">> \o InputOf(p)) ELSE None)
  ELSE Some(<<cop[p]>> \o InputOf(p))

Holding == {"write", "open2", "run", "read", "close2", "close"}

=============================================================================
